---- MODULE Spec2Model ----
(***************************************************************************)
(* TeamsTranscriptCleanerFlask: the word-list version store                *)
(* (app/models.py WordList, app/wordlists/routes.py) and the correction    *)
(* job / budget ledger (app/models.py CorrectionJob and User,              *)
(* app/api/routes.py process_transcript).                                  *)
(*                                                                         *)
(* Money is counted in units of 0.0001 (Numeric(10, 4)).  NULL columns are *)
(* 0 (ids, timestamps) or "" (text).  A timestamp that is set is 1.        *)
(***************************************************************************)
EXTENDS Integers, Sequences, FiniteSets, TLC

\* ------------------------------------------------------------------ bounds
MaxWordLists == 3      \* word-list rows ever inserted; no insert is tried
                       \* once they are used up
MaxJobs == 2           \* correction-job rows ever inserted
MaxCalls == 2          \* calls of the mark_as_ methods from outside /process
MaxUses == 1           \* downloads ever served
MaxColumns == 2        \* cells in a row of a CSV text that is parsed
MaxDataRows == 2       \* rows after the header of such a text

\* ------------------------------------------------------------------ inputs
Users == {1}
Names == {"A", "B"}
VersionNames == {"A", "B", "C"}
Descriptions == {"", "d1"}

\* A CSV text is modelled by the rows csv.reader yields, a cell by its
\* characters.
Header == << <<"i">>, <<"c">> >>
CsvTeh == << Header, << <<"T", "e", "h">>, <<"T", "h", "e">> >> >>
CsvPadded == << Header, << <<" ", "a">>, <<"b", " ">> >> >>
CsvMissing == << Header, << <<"T">>, <<"U">> >>, << <<>>, <<"m">> >> >>
CsvHeaderOnly == << Header >>
CsvEmpty == << >>
ValidCsv == {CsvTeh, CsvPadded}
CsvInputs == ValidCsv \cup {CsvMissing, CsvEmpty}

NoName == "<absent>"

\* the CSV texts given to the parsing and checking functions: every text of
\* a header and up to MaxDataRows rows of up to MaxColumns cells
Cells == {<<>>, <<" ">>, <<"a", " ">>}
SeqsUpTo(S, n) == UNION {[1..k -> S] : k \in 0..n}
Headers == {Header, << <<"i">> >>}
CsvTexts ==
    {<<>>} \cup
    {<<h>> \o d : h \in Headers,
                  d \in SeqsUpTo(SeqsUpTo(Cells, MaxColumns), MaxDataRows)}

VARIABLES
    wordlists,        \* the committed rows of table wordlists
    next_wordlist_id, \* the next primary key of table wordlists
    wl_last,          \* the last word-list request and its outcome
    wl_session,       \* the request that is between its query and the commit
                      \* of its create_version; same_chain notes whether a
                      \* restore named a version of the chain it restores
    wl_session2,      \* a second edit between its query and that commit
    uses,             \* the downloads served so far
    jobs,             \* the committed rows of table correction_jobs, by id
    transcripts,      \* is_processed of the committed transcript rows, by id
    total_api_cost,   \* users.total_api_cost of the job owner
    api_usage_limit,  \* users.api_usage_limit of the job owner
    pc,               \* where each /process request handler stands
    session,          \* what each /process handler holds uncommitted
    mcall,            \* the mark_as_completed call between its two commits
    charged,          \* per job, how many times the ledger was charged for it
    calls,            \* the mark_as_ method calls made so far
    admitted,         \* per job stored by a recorded /process, the owner's
                      \* spend then and whether the estimate fitted the limit
    text,             \* the CSV text a parsing or checking function is given
    answer            \* the function last applied to it and what it returned

wl_vars == <<wordlists, next_wordlist_id, wl_last, wl_session, wl_session2,
            uses>>
job_vars == <<jobs, transcripts, total_api_cost, api_usage_limit, pc,
              session, mcall, charged, calls, admitted>>
vars == <<wordlists, next_wordlist_id, wl_last, wl_session, wl_session2, uses,
          jobs,
          transcripts,
          total_api_cost,
          api_usage_limit, pc, session, mcall, charged, calls, admitted, text,
          answer>>
csv_vars == <<text, answer>>

\* ============================================================ CSV checking

IsSpace(ch) == ch = " "

RECURSIVE lstrip(_)
lstrip(s) == IF s # <<>> /\ IsSpace(Head(s)) THEN lstrip(Tail(s)) ELSE s

RECURSIVE rstrip(_)
rstrip(s) ==
    IF s # <<>> /\ IsSpace(s[Len(s)]) THEN rstrip(SubSeq(s, 1, Len(s) - 1))
    ELSE s

\* str.strip()
strip(s) == rstrip(lstrip(s))

\* row numbers that start at 1 on the first data row
RECURSIVE row_errors_from_one(_, _)
row_errors_from_one(csv, i) ==
    IF i > Len(csv) THEN <<>>
    ELSE (IF Len(csv[i]) < 2
             THEN << <<"min_columns", i - 1>> >>
          ELSE IF strip(csv[i][1]) = <<>> \/ strip(csv[i][2]) = <<>>
             THEN << <<"both_values", i - 1>> >>
          ELSE <<>>) \o row_errors_from_one(csv, i + 1)

\* The errors of the data rows from index i on; row i of the text is row
\* number i (the header is row 1, enumerate(csv_reader, start=2)).
RECURSIVE row_errors(_, _)
row_errors(csv, i) ==
    IF i > Len(csv) THEN <<>>
    ELSE (IF Len(csv[i]) < 2
             THEN << <<"min_columns", i>> >>
          ELSE IF strip(csv[i][1]) = <<>> \/ strip(csv[i][2]) = <<>>
             THEN << <<"both_values", i>> >>
          ELSE <<>>) \o row_errors(csv, i + 1)

\* a validation that looks at the header alone
validate_header_only(csv) ==
    IF csv = <<>> \/ Len(csv[1]) < 2 THEN << <<"header_columns", 1>> >>
    ELSE <<>>

\* wordlists/routes.py validate_csv_format
validate_csv_format(csv) ==
    (IF csv = <<>> \/ Len(csv[1]) < 2 THEN << <<"header_columns", 1>> >>
     ELSE <<>>)
    \o row_errors(csv, 2)
    \o (IF Len(csv) < 2 THEN << <<"no_data_row", 0>> >> ELSE <<>>)

\* the pairs of the rows from index i on
RECURSIVE word_pairs_from(_, _)
word_pairs_from(csv, i) ==
    IF i > Len(csv) THEN <<>>
    ELSE (IF Len(csv[i]) >= 2
             THEN << [incorrect |-> strip(csv[i][1]),
                      correct |-> strip(csv[i][2])] >>
          ELSE <<>>) \o word_pairs_from(csv, i + 1)

\* WordList.get_word_pairs
get_word_pairs(csv) == word_pairs_from(csv, 2)

\* WordList.get_word_count
get_word_count(csv) == Cardinality({i \in 2..Len(csv) : Len(csv[i]) >= 2})

NoAnswer == [op |-> "none", value |-> <<>>]

\* a word-list with this csv_content is asked for its pairs
GetWordPairs ==
    /\ answer' = [op |-> "get_word_pairs", value |-> get_word_pairs(text)]
    /\ UNCHANGED <<text, wl_vars, job_vars>>

\* a word-list with this csv_content is asked for its count
GetWordCount ==
    /\ answer' = [op |-> "get_word_count", value |-> <<get_word_count(text)>>]
    /\ UNCHANGED <<text, wl_vars, job_vars>>

\* the text is checked
ValidateCsvFormat ==
    /\ answer' = [op |-> "validate_csv_format",
                  value |-> validate_csv_format(text)]
    /\ UNCHANGED <<text, wl_vars, job_vars>>

\* ====================================================== word-list storage

Row(id) == CHOOSE r \in wordlists : r.id = id

\* a table that carries no uniqueness rule
NoUniqueViolation(rows) == FALSE

\* UniqueConstraint('user_id', 'name'): two rows of one user with one name
UniqueViolation(rows) ==
    \E r1 \in rows, r2 \in rows :
        r1.id # r2.id /\ r1.user_id = r2.user_id /\ r1.name = r2.name

\* db.session.commit(): the staged rows are stored, or an IntegrityError
\* rolls the unit of work back
Commit(stored, staged) == IF UniqueViolation(staged) THEN stored ELSE staged

\* WordList(user_id=, name=, description=, csv_content=) with the column
\* defaults version=1, parent_wordlist_id=NULL, usage_count=0,
\* last_used_at=NULL, is_active=True
NewWordList(id, u, name, description, csv) ==
    [id |-> id, user_id |-> u, name |-> name, description |-> description,
     csv_content |-> csv, version |-> 1, parent_wordlist_id |-> 0,
     usage_count |-> 0, last_used_at |-> 0, is_active |-> TRUE]

\* a create_version that rewrites the row in place instead of adding one
create_version_in_place(rows, self, new_csv_content, description, new_id) ==
    {IF r.id = self.id
     THEN [r EXCEPT !.csv_content = new_csv_content,
                    !.version = self.version + 1]
     ELSE r : r \in rows}

\* WordList.create_version up to its commit: the rows it stages.  self is
\* the row as the request queried it; the UPDATE it causes writes is_active
\* alone, the INSERT copies the fields self was queried with.
create_version(rows, self, new_csv_content, description, new_id) ==
    {IF r.id = self.id THEN [r EXCEPT !.is_active = FALSE] ELSE r :
        r \in rows} \cup
        {[id |-> new_id, user_id |-> self.user_id, name |-> self.name,
          description |-> IF description # "" THEN description
                          ELSE self.description,
          csv_content |-> new_csv_content, version |-> self.version + 1,
          parent_wordlist_id |-> self.id, usage_count |-> 0,
          last_used_at |-> 0, is_active |-> TRUE]}

\* the relationship history_versions: the rows whose parent is this row
history_versions(rows, self) ==
    {r \in rows : r.parent_wordlist_id = self.id}

\* order_by(WordList.version.desc()): the version numbers, largest first
RECURSIVE version_desc(_)
version_desc(rows) ==
    IF rows = {} THEN <<>>
    ELSE LET top == CHOOSE r \in rows :
                        \A q \in rows :
                            q.version < r.version
                            \/ (q.version = r.version /\ q.id <= r.id)
         IN <<top.version>> \o version_desc(rows \ {top})

\* WordList.get_history
get_history(rows, self) ==
    IF self.parent_wordlist_id # 0
    THEN version_desc(history_versions(rows,
             CHOOSE p \in rows : p.id = self.parent_wordlist_id))
    ELSE version_desc(history_versions(rows, self))

\* the root of the chain a row belongs to, following parent_wordlist_id
RECURSIVE RootOf(_, _)
RootOf(rows, r) ==
    IF r.parent_wordlist_id = 0
       \/ ~ \E p \in rows : p.id = r.parent_wordlist_id
    THEN r.id
    ELSE RootOf(rows, CHOOSE p \in rows : p.id = r.parent_wordlist_id)

Chain(rows, r) == {x \in rows : RootOf(rows, x) = RootOf(rows, r)}

\* ==================================================== word-list requests

WlOutcome(op, u, id, result) ==
    wl_last' = [op |-> op, id |-> id, result |-> result]

\* wordlists/routes.py create
Create(u, name, description, csv) ==
    /\ LET content == IF csv = CsvEmpty THEN CsvHeaderOnly ELSE csv
           staged == wordlists \cup
               {NewWordList(next_wordlist_id, u, name, description, content)}
       IN IF \E r \in wordlists :
                 r.user_id = u /\ r.name = name /\ r.is_active
          THEN /\ WlOutcome("create", u, 0, "duplicate_name")
               /\ UNCHANGED <<wordlists, next_wordlist_id>>
          ELSE IF validate_csv_format(content) # <<>>
          THEN /\ WlOutcome("create", u, 0, "invalid_format")
               /\ UNCHANGED <<wordlists, next_wordlist_id>>
          ELSE IF next_wordlist_id > MaxWordLists
          THEN FALSE
          ELSE IF UniqueViolation(staged)
          THEN /\ WlOutcome("create", u, 0, "integrity_error")
               /\ UNCHANGED <<wordlists, next_wordlist_id>>
          ELSE /\ wordlists' = Commit(wordlists, staged)
               /\ next_wordlist_id' = next_wordlist_id + 1
               /\ WlOutcome("create", u, next_wordlist_id, "created")
    /\ UNCHANGED <<wl_session, uses>>
    /\ UNCHANGED <<job_vars, csv_vars, wl_session2>>

\* wordlists/routes.py api_create_wordlist; csv CsvEmpty is a request
\* without csv_content
ApiCreate(u, name, description, csv) ==
    /\ LET staged == wordlists \cup
               {NewWordList(next_wordlist_id, u, name, description, csv)}
       IN IF csv = CsvEmpty
          THEN /\ WlOutcome("api_create", u, 0, "csv_required")
               /\ UNCHANGED <<wordlists, next_wordlist_id>>
          ELSE IF \E r \in wordlists :
                      r.user_id = u /\ r.name = name /\ r.is_active
          THEN /\ WlOutcome("api_create", u, 0, "duplicate_name")
               /\ UNCHANGED <<wordlists, next_wordlist_id>>
          ELSE IF validate_csv_format(csv) # <<>>
          THEN /\ WlOutcome("api_create", u, 0, "invalid_format")
               /\ UNCHANGED <<wordlists, next_wordlist_id>>
          ELSE IF next_wordlist_id > MaxWordLists
          THEN FALSE
          ELSE IF UniqueViolation(staged)
          THEN /\ WlOutcome("api_create", u, 0, "integrity_error")
               /\ UNCHANGED <<wordlists, next_wordlist_id>>
          ELSE /\ wordlists' = Commit(wordlists, staged)
               /\ next_wordlist_id' = next_wordlist_id + 1
               /\ WlOutcome("api_create", u, next_wordlist_id, "created")
    /\ UNCHANGED <<wl_session, uses>>
    /\ UNCHANGED <<job_vars, csv_vars, wl_session2>>
\* an edit that counts a change of description as a new version number
EditBumpingVersion(u, id, description, csv) ==
    /\ IF ~ \E r \in wordlists : r.id = id /\ r.user_id = u /\ r.is_active
       THEN /\ WlOutcome("edit", u, id, "not_found")
            /\ UNCHANGED <<wordlists, next_wordlist_id>>
       ELSE IF csv = CsvEmpty
       THEN /\ WlOutcome("edit", u, id, "csv_required")
            /\ UNCHANGED <<wordlists, next_wordlist_id>>
       ELSE IF validate_csv_format(csv) # <<>>
       THEN /\ WlOutcome("edit", u, id, "invalid_format")
            /\ UNCHANGED <<wordlists, next_wordlist_id>>
       ELSE IF csv # Row(id).csv_content
       THEN LET staged == create_version(wordlists, Row(id), csv,
                                         description, next_wordlist_id)
            IN /\ next_wordlist_id <= MaxWordLists
               /\ wordlists' = Commit(wordlists, staged)
               /\ IF UniqueViolation(staged)
                  THEN /\ WlOutcome("edit", u, id, "integrity_error")
                       /\ UNCHANGED next_wordlist_id
                  ELSE /\ WlOutcome("edit", u, id, "version_created")
                       /\ next_wordlist_id' = next_wordlist_id + 1
       ELSE /\ wordlists' = Commit(wordlists,
                (wordlists \ {Row(id)}) \cup
                    {[Row(id) EXCEPT !.description = description,
                                     !.version = @ + 1]})
            /\ WlOutcome("edit", u, id, "description_updated")
            /\ UNCHANGED next_wordlist_id
    /\ UNCHANGED <<wl_session, uses>>
    /\ UNCHANGED <<job_vars, csv_vars, wl_session2>>

\* wordlists/routes.py edit (POST)
Edit(u, id, description, csv) ==
    /\ IF ~ \E r \in wordlists : r.id = id /\ r.user_id = u /\ r.is_active
       THEN /\ WlOutcome("edit", u, id, "not_found")
            /\ UNCHANGED <<wordlists, next_wordlist_id>>
       ELSE IF csv = CsvEmpty
       THEN /\ WlOutcome("edit", u, id, "csv_required")
            /\ UNCHANGED <<wordlists, next_wordlist_id>>
       ELSE IF validate_csv_format(csv) # <<>>
       THEN /\ WlOutcome("edit", u, id, "invalid_format")
            /\ UNCHANGED <<wordlists, next_wordlist_id>>
       ELSE IF csv # Row(id).csv_content
       THEN LET staged == create_version(wordlists, Row(id), csv,
                                         description, next_wordlist_id)
            IN /\ next_wordlist_id <= MaxWordLists
               /\ wordlists' = Commit(wordlists, staged)
               /\ IF UniqueViolation(staged)
                  THEN /\ WlOutcome("edit", u, id, "integrity_error")
                       /\ UNCHANGED next_wordlist_id
                  ELSE /\ WlOutcome("edit", u, id, "version_created")
                       /\ next_wordlist_id' = next_wordlist_id + 1
       ELSE /\ wordlists' = Commit(wordlists,
                (wordlists \ {Row(id)}) \cup
                    {[Row(id) EXCEPT !.description = description]})
            /\ WlOutcome("edit", u, id, "description_updated")
            /\ UNCHANGED next_wordlist_id
    /\ UNCHANGED <<wl_session, uses>>
    /\ UNCHANGED <<job_vars, csv_vars, wl_session2>>

\* wordlists/routes.py restore_version
RestoreVersion(u, id, version_id) ==
    /\ IF \/ ~ \E r \in wordlists : r.id = id /\ r.user_id = u
          \/ ~ \E r \in wordlists : r.id = version_id /\ r.user_id = u
       THEN /\ WlOutcome("restore_version", u, id, "not_found")
            /\ UNCHANGED <<wordlists, next_wordlist_id>>
       ELSE LET staged == create_version(wordlists, Row(id),
                              Row(version_id).csv_content, "restored",
                              next_wordlist_id)
            IN /\ next_wordlist_id <= MaxWordLists
               /\ wordlists' = Commit(wordlists, staged)
               /\ IF UniqueViolation(staged)
                  THEN /\ WlOutcome("restore_version", u, id,
                                    "integrity_error")
                       /\ UNCHANGED next_wordlist_id
                  ELSE /\ WlOutcome("restore_version", u, id,
                                    "version_created")
                       /\ next_wordlist_id' = next_wordlist_id + 1
    /\ UNCHANGED <<wl_session, uses>>
    /\ UNCHANGED <<job_vars, csv_vars, wl_session2>>

\* wordlists/routes.py api_update_wordlist; name NoName and csv CsvEmpty are
\* the keys left out of the request
ApiUpdate(u, id, name_in, description, csv) ==
    /\ IF ~ \E r \in wordlists : r.id = id /\ r.user_id = u
       THEN /\ WlOutcome("api_update", u, id, "not_found")
            /\ UNCHANGED <<wordlists, next_wordlist_id>>
       ELSE LET wordlist == Row(id)
                name == IF name_in = NoName THEN wordlist.name ELSE name_in
            IN IF /\ name # wordlist.name
                  /\ \E r \in wordlists :
                        r.user_id = u /\ r.name = name /\ r.is_active
               THEN /\ WlOutcome("api_update", u, id, "duplicate_name")
                    /\ UNCHANGED <<wordlists, next_wordlist_id>>
               ELSE IF csv # CsvEmpty /\ csv # wordlist.csv_content
               THEN IF validate_csv_format(csv) # <<>>
                    THEN /\ WlOutcome("api_update", u, id, "invalid_format")
                         /\ UNCHANGED <<wordlists, next_wordlist_id>>
                    ELSE LET staged == create_version(wordlists, wordlist,
                                 csv, description, next_wordlist_id)
                             first == Commit(wordlists, staged)
                             new_wordlist ==
                                 CHOOSE r \in first : r.id = next_wordlist_id
                             renamed == (first \ {new_wordlist}) \cup
                                 {[new_wordlist EXCEPT !.name = name]}
                         IN IF next_wordlist_id > MaxWordLists
                            THEN FALSE
                            ELSE IF UniqueViolation(staged)
                            THEN /\ wordlists' = first
                                 /\ WlOutcome("api_update", u, id,
                                              "integrity_error")
                                 /\ UNCHANGED next_wordlist_id
                            ELSE /\ wordlists' = Commit(first, renamed)
                                 /\ next_wordlist_id' = next_wordlist_id + 1
                                 /\ WlOutcome("api_update", u, id,
                                        IF UniqueViolation(renamed)
                                        THEN "integrity_error"
                                        ELSE "version_created")
               ELSE LET staged == (wordlists \ {wordlist}) \cup
                            {[wordlist EXCEPT !.name = name,
                                              !.description = description]}
                    IN /\ wordlists' = Commit(wordlists, staged)
                       /\ WlOutcome("api_update", u, id,
                              IF UniqueViolation(staged)
                              THEN "integrity_error"
                              ELSE "metadata_updated")
                       /\ UNCHANGED next_wordlist_id
    /\ UNCHANGED <<wl_session, uses>>
    /\ UNCHANGED <<job_vars, csv_vars, wl_session2>>

\* wordlists/routes.py api_delete_wordlist; the rows left behind that
\* pointed at a deleted row have their parent_wordlist_id set to NULL
ApiDelete(u, id) ==
    /\ IF ~ \E r \in wordlists : r.id = id /\ r.user_id = u
       THEN /\ WlOutcome("api_delete", u, id, "not_found")
            /\ UNCHANGED wordlists
       ELSE LET wordlist == Row(id)
                versions_to_delete ==
                    IF wordlist.parent_wordlist_id # 0
                    THEN {p \in wordlists :
                             \/ p.id = wordlist.parent_wordlist_id
                             \/ p.parent_wordlist_id =
                                    wordlist.parent_wordlist_id}
                    ELSE history_versions(wordlists, wordlist)
                             \cup {wordlist}
                gone == {p.id : p \in versions_to_delete}
            IN /\ wordlists' =
                    {IF r.parent_wordlist_id \in gone
                     THEN [r EXCEPT !.parent_wordlist_id = 0] ELSE r :
                        r \in wordlists \ versions_to_delete}
               /\ WlOutcome("api_delete", u, id, "deleted")
    /\ UNCHANGED <<next_wordlist_id>>
    /\ UNCHANGED <<wl_session, uses>>
    /\ UNCHANGED <<job_vars, csv_vars, wl_session2>>

\* WordList.mark_as_used up to its commit
mark_as_used(self) ==
    [self EXCEPT !.usage_count = self.usage_count + 1, !.last_used_at = 1]

\* wordlists/routes.py download
Download(u, id) ==
    /\ IF ~ \E r \in wordlists : r.id = id /\ r.user_id = u
       THEN /\ WlOutcome("download", u, id, "not_found")
            /\ UNCHANGED <<wordlists, uses>>
       ELSE /\ uses < MaxUses
            /\ uses' = uses + 1
            /\ wordlists' = (wordlists \ {Row(id)}) \cup {mark_as_used(Row(id))}
            /\ WlOutcome("download", u, id, "downloaded")
    /\ UNCHANGED <<next_wordlist_id, wl_session>>
    /\ UNCHANGED <<job_vars, csv_vars, wl_session2>>

\* ------------------------------------------------------------------------
\* edit and restore_version served while other requests are served too:
\* the handler queries its row, checks the request and calls create_version
\* with the row as queried; other requests may commit before
\* create_version's commit does.

\* the fields of a queried row that create_version reads
Queried(r) ==
    [id |-> r.id, user_id |-> r.user_id, name |-> r.name,
     description |-> r.description, version |-> r.version]

NoWlSession ==
    [op |-> "none", self |-> Queried(NewWordList(0, 0, "", "", <<>>)),
     new_csv_content |-> <<>>, description |-> "", same_chain |-> TRUE]

\* edit (POST) from its query to its call of create_version
EditQuery(u, id, description, csv) ==
    /\ wl_session = NoWlSession
    /\ next_wordlist_id <= MaxWordLists
    /\ \E r \in wordlists : r.id = id /\ r.user_id = u /\ r.is_active
    /\ csv # CsvEmpty
    /\ validate_csv_format(csv) = <<>>
    /\ csv # Row(id).csv_content
    /\ wl_session' = [op |-> "edit", self |-> Queried(Row(id)),
                      new_csv_content |-> csv, description |-> description,
                      same_chain |-> TRUE]
    /\ UNCHANGED <<wordlists, next_wordlist_id, wl_last, uses>>
    /\ UNCHANGED <<job_vars, csv_vars, wl_session2>>

\* restore_version from its two queries to its call of create_version
RestoreVersionQuery(u, id, version_id) ==
    /\ wl_session = NoWlSession
    /\ next_wordlist_id <= MaxWordLists
    /\ \E r \in wordlists : r.id = id /\ r.user_id = u
    /\ \E r \in wordlists : r.id = version_id /\ r.user_id = u
    /\ wl_session' = [op |-> "restore_version", self |-> Queried(Row(id)),
                      new_csv_content |-> Row(version_id).csv_content,
                      description |-> "restored",
                      same_chain |-> Row(version_id) \in
                                         Chain(wordlists, Row(id))]
    /\ UNCHANGED <<wordlists, next_wordlist_id, wl_last, uses>>
    /\ UNCHANGED <<job_vars, csv_vars, wl_session2>>

\* create_version's commit in such a request.  It fails when the queried
\* row has been deleted meanwhile (the UPDATE finds no row, the new row's
\* parent does not exist).
CreateVersionCommit ==
    /\ wl_session # NoWlSession
    /\ next_wordlist_id <= MaxWordLists
    /\ LET self == wl_session.self
           staged == create_version(wordlists, self,
                         wl_session.new_csv_content, wl_session.description,
                         next_wordlist_id)
       IN IF ~ \E r \in wordlists : r.id = self.id
          THEN /\ WlOutcome(wl_session.op, self.user_id, self.id, "row_gone")
               /\ UNCHANGED <<wordlists, next_wordlist_id>>
          ELSE /\ wordlists' = Commit(wordlists, staged)
               /\ IF UniqueViolation(staged)
                  THEN /\ WlOutcome(wl_session.op, self.user_id, self.id,
                                    "integrity_error")
                       /\ UNCHANGED next_wordlist_id
                  ELSE /\ WlOutcome(wl_session.op, self.user_id, self.id,
                                    "version_created")
                       /\ next_wordlist_id' = next_wordlist_id + 1
    /\ wl_session' = NoWlSession
    /\ UNCHANGED uses
    /\ UNCHANGED <<job_vars, csv_vars, wl_session2>>

\* a second edit (POST) served while the first is, from its query to its
\* call of create_version
EditQuerySecond(u, id, description, csv) ==
    /\ wl_session2 = NoWlSession
    /\ next_wordlist_id <= MaxWordLists
    /\ \E r \in wordlists : r.id = id /\ r.user_id = u /\ r.is_active
    /\ csv # CsvEmpty
    /\ validate_csv_format(csv) = <<>>
    /\ csv # Row(id).csv_content
    /\ wl_session2' = [op |-> "edit", self |-> Queried(Row(id)),
                       new_csv_content |-> csv, description |-> description,
                       same_chain |-> TRUE]
    /\ UNCHANGED <<wordlists, next_wordlist_id, wl_last, wl_session, uses>>
    /\ UNCHANGED <<job_vars, csv_vars>>

\* a create_version that refuses to commit once the row it read has been
\* superseded
CreateVersionCommitSecondGuarded ==
    /\ wl_session2 # NoWlSession
    /\ next_wordlist_id <= MaxWordLists
    /\ LET self == wl_session2.self
           staged == create_version(wordlists, self,
                         wl_session2.new_csv_content, wl_session2.description,
                         next_wordlist_id)
       IN IF ~ \E r \in wordlists : r.id = self.id /\ r.is_active
          THEN /\ WlOutcome(wl_session2.op, self.user_id, self.id, "row_gone")
               /\ UNCHANGED <<wordlists, next_wordlist_id>>
          ELSE /\ wordlists' = Commit(wordlists, staged)
               /\ IF UniqueViolation(staged)
                  THEN /\ WlOutcome(wl_session2.op, self.user_id, self.id,
                                    "integrity_error")
                       /\ UNCHANGED next_wordlist_id
                  ELSE /\ WlOutcome(wl_session2.op, self.user_id, self.id,
                                    "version_created")
                       /\ next_wordlist_id' = next_wordlist_id + 1
    /\ wl_session2' = NoWlSession
    /\ UNCHANGED <<wl_session, uses>>
    /\ UNCHANGED <<job_vars, csv_vars>>

\* create_version's commit in the second edit
CreateVersionCommitSecond ==
    /\ wl_session2 # NoWlSession
    /\ next_wordlist_id <= MaxWordLists
    /\ LET self == wl_session2.self
           staged == create_version(wordlists, self,
                         wl_session2.new_csv_content, wl_session2.description,
                         next_wordlist_id)
       IN IF ~ \E r \in wordlists : r.id = self.id
          THEN /\ WlOutcome(wl_session2.op, self.user_id, self.id, "row_gone")
               /\ UNCHANGED <<wordlists, next_wordlist_id>>
          ELSE /\ wordlists' = Commit(wordlists, staged)
               /\ IF UniqueViolation(staged)
                  THEN /\ WlOutcome(wl_session2.op, self.user_id, self.id,
                                    "integrity_error")
                       /\ UNCHANGED next_wordlist_id
                  ELSE /\ WlOutcome(wl_session2.op, self.user_id, self.id,
                                    "version_created")
                       /\ next_wordlist_id' = next_wordlist_id + 1
    /\ wl_session2' = NoWlSession
    /\ UNCHANGED <<wl_session, uses>>
    /\ UNCHANGED <<job_vars, csv_vars>>

\* ============================================== correction jobs and ledger

Workers == {"w1", "w2"}

\* users.api_usage_limit default Decimal('10.00')
DefaultLimit == 100000

\* what correct_text can return: the corrected text, the cost and the
\* token counts of the service's response
Results ==
    {[content |-> "out1", cost |-> 123, prompt_tokens |-> 7,
      completion_tokens |-> 5],
     [content |-> "out2", cost |-> 99900, prompt_tokens |-> 9,
      completion_tokens |-> 4]}

\* what a caller of mark_as_completed can pass: the smallest cost the
\* cost column can hold, 0.0001, and 0.0123
ChargeResults ==
    {[content |-> "out1", cost |-> 1, prompt_tokens |-> 7,
      completion_tokens |-> 5],
     [content |-> "out1", cost |-> 123, prompt_tokens |-> 7,
      completion_tokens |-> 5]}

\* the messages of the errors correct_text can raise
ErrorMessages == {"rate limited", "OpenAI API key is not configured."}

\* the estimates estimate_cost can give for a request's text
Estimates == {50, 200}

Terminal == {"completed", "failed", "cancelled"}

\* User.can_use_api
can_use_api(spend, estimated_cost, limit) == spend + estimated_cost <= limit

\* CorrectionJob(..., status='processing') with the column defaults
ProcessingJob(transcript_id) ==
    [transcript_id |-> transcript_id, status |-> "processing",
     corrected_content |-> "", cost |-> 0, input_tokens |-> 0,
     output_tokens |-> 0, error_message |-> "", started_at |-> 0,
     completed_at |-> 0]

\* process_transcript, the fields it sets on success
ProcessCompleted(job, res) ==
    [job EXCEPT !.status = "completed", !.corrected_content = res.content,
                !.cost = res.cost, !.completed_at = 1]

\* a failure branch that stores a fixed text instead of the error's own
ProcessFailedGeneric(job, error_message) ==
    [job EXCEPT !.status = "failed", !.error_message = "AI error"]

\* process_transcript, the fields it sets when correct_text raises
ProcessFailed(job, error_message) ==
    [job EXCEPT !.status = "failed", !.error_message = error_message]

\* CorrectionJob.mark_as_processing
mark_as_processing(job) ==
    [job EXCEPT !.status = "processing", !.started_at = 1]

\* a completion whose cost column had the scale of api_usage_limit,
\* Numeric(10, 2): the cost is stored rounded to a hundredth
mark_as_completed_scale2(job, res) ==
    [job EXCEPT !.status = "completed", !.corrected_content = res.content,
                !.cost = ((res.cost + 50) \div 100) * 100,
                !.input_tokens = res.prompt_tokens,
                !.output_tokens = res.completion_tokens,
                !.completed_at = 1]

\* CorrectionJob.mark_as_completed up to its own commit
mark_as_completed(job, res) ==
    [job EXCEPT !.status = "completed", !.corrected_content = res.content,
                !.cost = res.cost, !.input_tokens = res.prompt_tokens,
                !.output_tokens = res.completion_tokens,
                !.completed_at = 1]

\* a mark_as_failed that files the job under cancelled
mark_as_cancelled(job, error_message) ==
    [job EXCEPT !.status = "cancelled", !.error_message = error_message,
                !.completed_at = 1]

\* CorrectionJob.mark_as_failed
mark_as_failed(job, error_message) ==
    [job EXCEPT !.status = "failed", !.error_message = error_message,
                !.completed_at = 1]

NoSession == [job |-> 0, staged |-> ProcessingJob(0), total |-> 0]
NoCall == [job |-> 0, cost |-> 0]

\* the jobs a /process handler or a mark_as_completed call is working on
InFlight == {session[w].job : w \in {x \in Workers : pc[x] # "idle"}}
                \cup (IF mcall.job # 0 THEN {mcall.job} ELSE {})

Quiet == (\A w \in Workers : pc[w] = "idle") /\ mcall = NoCall

\* process_transcript up to the commit that stores the transcript and the
\* job (a request that fails validation returns before it changes
\* anything); est is what estimate_cost gives for the request's text,
\* which the handler never asks for
ProcessSubmit(w, est) ==
    /\ pc[w] = "idle"
    /\ Len(jobs) < MaxJobs
    /\ transcripts' = Append(transcripts, FALSE)
    /\ jobs' = Append(jobs, ProcessingJob(Len(transcripts) + 1))
    /\ charged' = Append(charged, 0)
    /\ pc' = [pc EXCEPT ![w] = "calling"]
    /\ session' = [session EXCEPT ![w] =
           [job |-> Len(jobs) + 1,
            staged |-> ProcessingJob(Len(transcripts) + 1), total |-> 0]]
    /\ UNCHANGED <<total_api_cost, api_usage_limit, mcall>>
    /\ UNCHANGED calls
    /\ UNCHANGED <<wl_vars, csv_vars, admitted>>

\* a /process that waits until no other request of the owner is in flight
ProcessAdmitSerialized(w, est) ==
    /\ \A x \in Workers : pc[x] = "idle"
    /\ Len(jobs) < MaxJobs
    /\ transcripts' = Append(transcripts, FALSE)
    /\ jobs' = Append(jobs, ProcessingJob(Len(transcripts) + 1))
    /\ charged' = Append(charged, 0)
    /\ admitted' = Append(admitted,
           [spend |-> total_api_cost,
            fits |-> can_use_api(total_api_cost, est, api_usage_limit)])
    /\ pc' = [pc EXCEPT ![w] = "calling"]
    /\ session' = [session EXCEPT ![w] =
           [job |-> Len(jobs) + 1,
            staged |-> ProcessingJob(Len(transcripts) + 1), total |-> 0]]
    /\ UNCHANGED <<total_api_cost, api_usage_limit, mcall>>
    /\ UNCHANGED calls
    /\ UNCHANGED <<wl_vars, csv_vars>>

\* process_transcript up to the same commit, with a record of what
\* can_use_api would have answered for the request when its job was stored
ProcessAdmit(w, est) ==
    /\ pc[w] = "idle"
    /\ Len(jobs) < MaxJobs
    /\ transcripts' = Append(transcripts, FALSE)
    /\ jobs' = Append(jobs, ProcessingJob(Len(transcripts) + 1))
    /\ charged' = Append(charged, 0)
    /\ admitted' = Append(admitted,
           [spend |-> total_api_cost,
            fits |-> can_use_api(total_api_cost, est, api_usage_limit)])
    /\ pc' = [pc EXCEPT ![w] = "calling"]
    /\ session' = [session EXCEPT ![w] =
           [job |-> Len(jobs) + 1,
            staged |-> ProcessingJob(Len(transcripts) + 1), total |-> 0]]
    /\ UNCHANGED <<total_api_cost, api_usage_limit, mcall>>
    /\ UNCHANGED calls
    /\ UNCHANGED <<wl_vars, csv_vars>>

\* process_transcript: correct_text returns; the handler sets the job's
\* fields and adds the cost to the total_api_cost it reads now
ProcessServiceReturns(w, res) ==
    /\ pc[w] = "calling"
    /\ pc' = [pc EXCEPT ![w] = "updated"]
    /\ session' = [session EXCEPT ![w] =
           [job |-> session[w].job,
            staged |-> ProcessCompleted(jobs[session[w].job], res),
            total |-> total_api_cost + res.cost]]
    /\ UNCHANGED <<jobs, transcripts, total_api_cost, api_usage_limit,
                   mcall, charged>>
    /\ UNCHANGED calls
    /\ UNCHANGED <<wl_vars, csv_vars, admitted>>

\* process_transcript: the commit that stores the completed job, the
\* user's new total and the transcript's is_processed
ProcessCommit(w) ==
    /\ pc[w] = "updated"
    /\ LET j == session[w].job
       IN /\ jobs' = [jobs EXCEPT ![j] = session[w].staged]
          /\ transcripts' =
                [transcripts EXCEPT ![jobs[j].transcript_id] = TRUE]
          /\ total_api_cost' = session[w].total
          /\ charged' = [charged EXCEPT ![j] = @ + 1]
    /\ pc' = [pc EXCEPT ![w] = "idle"]
    /\ session' = [session EXCEPT ![w] = NoSession]
    /\ UNCHANGED <<api_usage_limit, mcall>>
    /\ UNCHANGED calls
    /\ UNCHANGED <<wl_vars, csv_vars, admitted>>

\* a handler that notes the error on the job and calls correct_text again
ProcessServiceRaisesRetry(w, msg) ==
    /\ pc[w] = "calling"
    /\ LET j == session[w].job
       IN /\ jobs' = [jobs EXCEPT ![j] = [@ EXCEPT !.error_message = msg]]
    /\ UNCHANGED <<pc, session, transcripts, total_api_cost, api_usage_limit,
                   mcall, charged>>
    /\ UNCHANGED calls
    /\ UNCHANGED <<wl_vars, csv_vars, admitted>>

\* process_transcript: correct_text raises; the handler stores the failure
\* and answers 500 with the job's id
ProcessServiceRaises(w, msg) ==
    /\ pc[w] = "calling"
    /\ LET j == session[w].job
       IN /\ jobs' = [jobs EXCEPT ![j] = ProcessFailed(jobs[j], msg)]
    /\ pc' = [pc EXCEPT ![w] = "idle"]
    /\ session' = [session EXCEPT ![w] = NoSession]
    /\ UNCHANGED <<transcripts, total_api_cost, api_usage_limit, mcall,
                   charged>>
    /\ UNCHANGED calls
    /\ UNCHANGED <<wl_vars, csv_vars, admitted>>

\* CorrectionJob.mark_as_processing on a stored job
MarkAsProcessing(j) ==
    /\ j \in 1..Len(jobs) /\ j \notin InFlight /\ mcall = NoCall
    /\ calls < MaxCalls
    /\ calls' = calls + 1
    /\ jobs' = [jobs EXCEPT ![j] = mark_as_processing(jobs[j])]
    /\ UNCHANGED <<transcripts, total_api_cost, api_usage_limit, pc,
                   session, mcall, charged>>
    /\ UNCHANGED <<wl_vars, csv_vars, admitted>>

\* CorrectionJob.mark_as_completed up to its first commit (models.py 591)
MarkAsCompleted(j, res) ==
    /\ j \in 1..Len(jobs) /\ j \notin InFlight /\ mcall = NoCall
    /\ calls < MaxCalls
    /\ calls' = calls + 1
    /\ jobs' = [jobs EXCEPT ![j] = mark_as_completed(jobs[j], res)]
    /\ mcall' = [job |-> j, cost |-> res.cost]
    /\ UNCHANGED <<transcripts, total_api_cost, api_usage_limit, pc,
                   session, charged>>
    /\ UNCHANGED <<wl_vars, csv_vars, admitted>>

\* CorrectionJob.mark_as_completed, its call of User.add_api_cost
AddApiCost ==
    /\ mcall # NoCall
    /\ total_api_cost' = total_api_cost + mcall.cost
    /\ charged' = [charged EXCEPT ![mcall.job] = @ + 1]
    /\ mcall' = NoCall
    /\ UNCHANGED <<jobs, transcripts, api_usage_limit, pc, session>>
    /\ UNCHANGED calls
    /\ UNCHANGED <<wl_vars, csv_vars, admitted>>

\* CorrectionJob.mark_as_failed on a stored job
MarkAsFailed(j, msg) ==
    /\ j \in 1..Len(jobs) /\ j \notin InFlight /\ mcall = NoCall
    /\ calls < MaxCalls
    /\ calls' = calls + 1
    /\ jobs' = [jobs EXCEPT ![j] = mark_as_failed(jobs[j], msg)]
    /\ UNCHANGED <<transcripts, total_api_cost, api_usage_limit, pc,
                   session, mcall, charged>>
    /\ UNCHANGED <<wl_vars, csv_vars, admitted>>

\* auth/routes.py reset_api_cost, User.reset_api_cost
ResetApiCost ==
    /\ total_api_cost' = 0
    /\ UNCHANGED <<jobs, transcripts, api_usage_limit, pc, session, mcall,
                   charged>>
    /\ UNCHANGED calls
    /\ UNCHANGED <<wl_vars, csv_vars, admitted>>

\* the server process dies: every handler in flight is gone with what it
\* had not committed
Crash ==
    /\ ~ Quiet
    /\ pc' = [w \in Workers |-> "idle"]
    /\ session' = [w \in Workers |-> NoSession]
    /\ mcall' = NoCall
    /\ UNCHANGED <<jobs, transcripts, total_api_cost, api_usage_limit,
                   charged>>
    /\ UNCHANGED calls
    /\ UNCHANGED <<wl_vars, csv_vars, admitted>>

\* ========================================================= specifications

InitStore ==
    /\ wordlists = {}
    /\ next_wordlist_id = 1
    /\ wl_last = [op |-> "none", id |-> 0, result |-> "none"]
    /\ wl_session = NoWlSession
    /\ wl_session2 = NoWlSession
    /\ uses = 0
    /\ jobs = <<>>
    /\ transcripts = <<>>
    /\ total_api_cost = 0
    /\ api_usage_limit = DefaultLimit
    /\ pc = [w \in Workers |-> "idle"]
    /\ session = [w \in Workers |-> NoSession]
    /\ mcall = NoCall
    /\ charged = <<>>
    /\ calls = 0
    /\ admitted = <<>>

Init == InitStore /\ text = CsvEmpty /\ answer = NoAnswer

\* any CSV text, nothing asked of it yet
InitCsv == InitStore /\ text \in CsvTexts /\ answer = NoAnswer

NextCsv == GetWordPairs \/ GetWordCount \/ ValidateCsvFormat

\* the parsing and checking functions applied to one CSV text
SpecCsv == InitCsv /\ [][NextCsv]_vars

NextWordLists ==
    \/ \E u \in Users, name \in Names, d \in Descriptions, csv \in CsvInputs :
           Create(u, name, d, csv)
    \/ \E u \in Users, name \in Names, d \in Descriptions, csv \in CsvInputs :
           ApiCreate(u, name, d, csv)
    \/ \E u \in Users, id \in 1..MaxWordLists, d \in Descriptions,
          csv \in CsvInputs : Edit(u, id, d, csv)
    \/ \E u \in Users, id \in 1..MaxWordLists, v \in 1..MaxWordLists :
           RestoreVersion(u, id, v)
    \/ \E u \in Users, id \in 1..MaxWordLists, name \in Names \cup {NoName},
          d \in Descriptions, csv \in CsvInputs : ApiUpdate(u, id, name, d, csv)
    \/ \E u \in Users, id \in 1..MaxWordLists : ApiDelete(u, id)

NextJobs ==
    \/ \E w \in Workers, est \in Estimates : ProcessSubmit(w, est)
    \/ \E w \in Workers, res \in Results : ProcessServiceReturns(w, res)
    \/ \E w \in Workers : ProcessCommit(w)
    \/ \E w \in Workers, msg \in ErrorMessages : ProcessServiceRaises(w, msg)
    \/ \E j \in 1..MaxJobs : MarkAsProcessing(j)
    \/ \E j \in 1..MaxJobs, res \in Results : MarkAsCompleted(j, res)
    \/ AddApiCost
    \/ \E j \in 1..MaxJobs, msg \in ErrorMessages : MarkAsFailed(j, msg)
    \/ ResetApiCost
    \/ Crash

\* the requests that create, change and delete word-lists, served one at a
\* time
SpecWordLists == Init /\ [][NextWordLists]_vars

\* the word-list requests, downloads included, with an edit or a restore
\* served while other requests are; the requests carry valid CSV texts and
\* no description
NextVersions ==
    \/ \E u \in Users, name \in VersionNames, csv \in ValidCsv :
           Create(u, name, "", csv)
    \/ \E u \in Users, id \in 1..MaxWordLists, csv \in ValidCsv :
           EditQuery(u, id, "", csv)
    \/ \E u \in Users, id \in 1..MaxWordLists, v \in 1..MaxWordLists :
           RestoreVersionQuery(u, id, v)
    \/ CreateVersionCommit
    \/ \E u \in Users, id \in 1..MaxWordLists, name \in VersionNames :
           ApiUpdate(u, id, name, "", CsvEmpty)
    \/ \E u \in Users, id \in 1..MaxWordLists : ApiDelete(u, id)
    \/ \E u \in Users, id \in 1..MaxWordLists : Download(u, id)

SpecVersions == Init /\ [][NextVersions]_vars

\* the job lifecycle and the ledger alone
SpecJobs == Init /\ [][NextJobs]_vars

NextCharges ==
    \/ \E w \in Workers, est \in Estimates : ProcessSubmit(w, est)
    \/ \E w \in Workers, msg \in ErrorMessages : ProcessServiceRaises(w, msg)
    \/ \E j \in 1..MaxJobs : MarkAsProcessing(j)
    \/ \E j \in 1..MaxJobs, res \in ChargeResults : MarkAsCompleted(j, res)
    \/ AddApiCost

\* jobs completed through CorrectionJob.mark_as_completed alone: no
\* /process request succeeds and nobody resets the spend
SpecCharges == Init /\ [][NextCharges]_vars

NextAdmission ==
    \/ \E w \in Workers, est \in Estimates : ProcessAdmit(w, est)
    \/ \E w \in Workers, res \in Results : ProcessServiceReturns(w, res)
    \/ \E w \in Workers : ProcessCommit(w)
    \/ \E w \in Workers, msg \in ErrorMessages : ProcessServiceRaises(w, msg)

\* the /process requests of one user, with the record of their admissions
SpecAdmission == Init /\ [][NextAdmission]_vars

NextEdits ==
    \/ \E u \in Users, name \in VersionNames, csv \in ValidCsv :
           Create(u, name, "", csv)
    \/ \E u \in Users, id \in 1..MaxWordLists, csv \in ValidCsv :
           EditQuery(u, id, "", csv)
    \/ \E u \in Users, id \in 1..MaxWordLists, csv \in ValidCsv :
           EditQuerySecond(u, id, "", csv)
    \/ CreateVersionCommit
    \/ CreateVersionCommitSecond
    \/ \E u \in Users, id \in 1..MaxWordLists, name \in VersionNames :
           ApiUpdate(u, id, name, "", CsvEmpty)

\* creations, renames and up to two edits served at the same time
SpecEdits == Init /\ [][NextEdits]_vars

\* the /process requests when the correction service answers every call,
\* with a result or with an error, and every handler that can go on does
SpecAdmissionFair ==
    /\ SpecAdmission
    /\ \A w \in Workers :
           /\ WF_vars((\E res \in Results : ProcessServiceReturns(w, res))
                         \/ (\E msg \in ErrorMessages :
                                 ProcessServiceRaises(w, msg)))
           /\ WF_vars(ProcessCommit(w))

Next ==
    \/ NextWordLists \/ NextVersions \/ NextJobs \/ NextCsv \/ NextCharges
    \/ NextAdmission \/ NextEdits

Spec == Init /\ [][Next]_vars

NextJobsNoCrash ==
    \/ \E w \in Workers, est \in Estimates : ProcessSubmit(w, est)
    \/ \E w \in Workers, res \in Results : ProcessServiceReturns(w, res)
    \/ \E w \in Workers : ProcessCommit(w)
    \/ \E w \in Workers, msg \in ErrorMessages : ProcessServiceRaises(w, msg)
    \/ \E j \in 1..MaxJobs : MarkAsProcessing(j)
    \/ \E j \in 1..MaxJobs, res \in Results : MarkAsCompleted(j, res)
    \/ AddApiCost
    \/ \E j \in 1..MaxJobs, msg \in ErrorMessages : MarkAsFailed(j, msg)
    \/ ResetApiCost

\* the job lifecycle and the ledger while the server process stays up
SpecJobsNoCrash == Init /\ [][NextJobsNoCrash]_vars

\* ================================================================= claims

\* C1: every version chain that exists has exactly one row with
\* is_active = TRUE, after any sequence of create, edit, restore, API update
\* and API delete.
C1_OneActivePerChain ==
    \A r \in wordlists :
        Cardinality({x \in Chain(wordlists, r) : x.is_active}) = 1

\* C2: with no operation in flight, every completed job has been charged to
\* the ledger exactly once and no failed job has been charged.
C2_ChargedOncePerCompletion ==
    Quiet =>
        \A j \in 1..Len(jobs) :
            /\ jobs[j].status = "completed" => charged[j] = 1
            /\ jobs[j].status = "failed" => charged[j] = 0

\* C3: a /process request puts its job in processing only if the owner's
\* spend plus the request's estimated cost is within the limit.
C3_AdmissionChecked ==
    [][\A w \in Workers, est \in Estimates :
           ProcessSubmit(w, est) =>
               can_use_api(total_api_cost, est, api_usage_limit)]_vars

\* C4: completed_at is set exactly for the jobs whose status is completed,
\* failed or cancelled.
C4_CompletedAtIffTerminal ==
    \A j \in 1..Len(jobs) :
        (jobs[j].completed_at # 0) <=> (jobs[j].status \in Terminal)

\* C5: once no handler is running (also after a crash), no job is stored
\* as completed without its cost having been added to the owner's spend.
C5_CompletionChargedAtomically ==
    Quiet =>
        \A j \in 1..Len(jobs) :
            jobs[j].status = "completed" => charged[j] >= 1

\* C6: when correct_text raises, the handler finishes with the job failed,
\* the raised message stored as it is, the job's cost zero and never
\* charged, and the owner's spend as it was.
C6_ServiceErrorHandled ==
    [][\A w \in Workers, msg \in ErrorMessages :
           ProcessServiceRaises(w, msg) =>
               /\ pc'[w] = "idle"
               /\ jobs'[session[w].job].status = "failed"
               /\ jobs'[session[w].job].error_message = msg
               /\ jobs'[session[w].job].cost = 0
               /\ charged'[session[w].job] = 0
               /\ total_api_cost' = total_api_cost]_vars

\* C6: a job that failed on "rate limited" while the owner had already
\* spent something.
C6_Witness ==
    \E j \in 1..Len(jobs) :
        /\ jobs[j].status = "failed"
        /\ jobs[j].error_message = "rate limited"
        /\ jobs[j].completed_at = 0
        /\ jobs[j].cost = 0
        /\ total_api_cost > 0

\* C7: an edit that reaches create_version leaves the edited row inactive
\* and a new active row with the next version number that points at it.
C7_CreateVersionAppends ==
    (wl_last.op = "edit"
        /\ wl_last.result \in {"version_created", "integrity_error"}) =>
        \E v \in wordlists, n \in wordlists :
            /\ v.id = wl_last.id /\ ~ v.is_active
            /\ n.parent_wordlist_id = v.id /\ n.version = v.version + 1
            /\ n.is_active

\* C8: get_history on any row gives the version numbers of all rows of the
\* row's chain, largest first.
C8_HistoryIsWholeChain ==
    \A r \in wordlists :
        get_history(wordlists, r) = version_desc(Chain(wordlists, r))

\* C9: create_version never fails on the uniqueness rule on (owner, name).
C9_NoDuplicateNameFailure ==
    wl_last.op \in {"edit", "restore_version", "api_update"} =>
        wl_last.result # "integrity_error"

C11_SupersededIsFrozen ==
    [][\A r \in wordlists :
           ~ r.is_active =>
               \A q \in wordlists' :
                   q.id = r.id =>
                       /\ q.name = r.name
                       /\ q.description = r.description
                       /\ q.usage_count = r.usage_count
                       /\ q.last_used_at = r.last_used_at]_vars

\* C12: when a restore stores a new version, its version number is greater
\* than the version number of every row that was in the chain of the row
\* the restore was addressed to.
C12_RestoreAppendOnly ==
    [][(wl_session.op = "restore_version" /\ CreateVersionCommit
            /\ wl_last'.result = "version_created") =>
           \A n \in wordlists' :
               n.id = next_wordlist_id =>
                   \A r \in Chain(wordlists, Row(wl_session.self.id)) :
                       n.version > r.version]_vars

\* C13: an API delete addressed to the root of a chain leaves no row of that
\* chain stored.
C13_DeleteRootCascades ==
    [][\A u \in Users, id \in 1..MaxWordLists :
           (ApiDelete(u, id) /\ wl_last'.result = "deleted"
                /\ Row(id).parent_wordlist_id = 0) =>
               \A r \in Chain(wordlists, Row(id)) :
                   ~ \E q \in wordlists' : q.id = r.id]_vars

\* C14: a create request (form or API) for a name the owner has an active
\* word-list of is answered as a duplicate name, one whose CSV text fails
\* validation (or is missing) is answered as a format error, the duplicate
\* name being reported when both apply to a request with CSV text; in all
\* these cases the stored rows stay as they were.
C14_CreateRejections ==
    [][wl_last'.op \in {"create", "api_create"} =>
       \A u \in Users, name \in Names, d \in Descriptions, csv \in CsvInputs :
           (Create(u, name, d, csv) \/ ApiCreate(u, name, d, csv)) =>
               LET dup == \E r \in wordlists :
                              r.user_id = u /\ r.name = name /\ r.is_active
                   invalid == csv \notin ValidCsv
                   format == {"invalid_format", "csv_required"}
               IN /\ (dup \/ invalid) =>
                         /\ wordlists' = wordlists
                         /\ next_wordlist_id' = next_wordlist_id
                         /\ wl_last'.result \in format \cup {"duplicate_name"}
                  /\ (dup /\ csv # CsvEmpty) =>
                         wl_last'.result = "duplicate_name"
                  /\ (invalid /\ ~ dup) => wl_last'.result \in format]_vars

\* C14: a create request has just been refused for its name while a
\* word-list is stored.
C14_Witness ==
    /\ wl_last.op \in {"create", "api_create"}
    /\ wl_last.result = "duplicate_name"
    /\ wordlists # {}

\* C15: no two stored rows that are active, belong to one owner and carry
\* one name.
C15_UniqueActiveNames ==
    \A r1 \in wordlists, r2 \in wordlists :
        (r1.is_active /\ r2.is_active /\ r1.user_id = r2.user_id
             /\ r1.name = r2.name) => r1.id = r2.id

\* C15: two active word-lists are stored and an API update that asked for
\* the other one's name has just been refused.
C15_Witness ==
    /\ wl_last.op = "api_update"
    /\ wl_last.result = "duplicate_name"
    /\ Cardinality({r \in wordlists : r.is_active}) = 2

\* C16: the owner's total_api_cost is never negative and no step lowers it
\* other than reset_api_cost, which sets it to zero.
C16_SpendMonotone ==
    [][/\ total_api_cost' >= 0
       /\ total_api_cost' < total_api_cost =>
              (ResetApiCost /\ total_api_cost' = 0)]_vars

\* C17: no step changes anything of a stored job whose status is completed,
\* failed or cancelled.
C17_TerminalAbsorbing ==
    [][\A j \in 1..Len(jobs) :
           jobs[j].status \in Terminal => jobs'[j] = jobs[j]]_vars

\* a data row with at least two cells whose first two are not blank
WellFormed(row) ==
    Len(row) >= 2 /\ strip(row[1]) # <<>> /\ strip(row[2]) # <<>>

\* C18: get_word_pairs returns as many pairs as the text has well-formed
\* data rows, and both fields of every pair are non-empty.
C18_PairsOfWellFormedRows ==
    answer.op = "get_word_pairs" =>
        /\ Len(answer.value) =
               Cardinality({i \in 2..Len(text) : WellFormed(text[i])})
        /\ \A k \in 1..Len(answer.value) :
               /\ answer.value[k].incorrect # <<>>
               /\ answer.value[k].correct # <<>>

IsRowError(e) == e[1] \in {"min_columns", "both_values"}

\* C19: validate_csv_format reports one error for every data row that is
\* not well-formed, in row order, each with the row's number counted from
\* the header as row 1, and of the kind the row's defect calls for.
C19_OneErrorPerMalformedRow ==
    answer.op = "validate_csv_format" =>
        LET errs == SelectSeq(answer.value, IsRowError)
            malformed == {i \in 2..Len(text) : ~ WellFormed(text[i])}
        IN /\ Len(errs) = Cardinality(malformed)
           /\ \A k \in 1..Len(errs) :
                  /\ errs[k][2] \in malformed
                  /\ k > 1 => errs[k - 1][2] < errs[k][2]
                  /\ errs[k][1] = IF Len(text[errs[k][2]]) < 2
                                  THEN "min_columns" ELSE "both_values"

\* C19: a header, a valid row and a row whose first cell is empty were
\* checked and the one error names row 3.
C19_Witness ==
    /\ text = << Header, << <<"a", " ">>, <<"a", " ">> >>,
                 << <<>>, <<"a", " ">> >> >>
    /\ answer = [op |-> "validate_csv_format",
                 value |-> << <<"both_values", 3>> >>]

\* C20: validate_csv_format reports the missing data row whenever no data
\* row of the text is well-formed.
C20_NoValidRowReported ==
    answer.op = "validate_csv_format" =>
        ((\A i \in 2..Len(text) : ~ WellFormed(text[i])) =>
            \E k \in 1..Len(answer.value) :
                answer.value[k] = <<"no_data_row", 0>>)

RECURSIVE ChargedCost(_)
\* the costs recorded on the first k jobs that were charged
ChargedCost(k) ==
    IF k = 0 THEN 0
    ELSE ChargedCost(k - 1) + (IF charged[k] = 1 THEN jobs[k].cost ELSE 0)

C22_AdmissionNotSerialized ==
    \A w \in Workers, est \in Estimates :
        (pc[w] = "idle" /\ Len(jobs) < MaxJobs) => ENABLED ProcessAdmit(w, est)

\* C22: two jobs were stored against the same spend, each estimate fitting
\* the limit then, both were charged, and the spend is above the limit.
C22_Witness ==
    /\ Len(jobs) = 2
    /\ admitted[1].spend = admitted[2].spend
    /\ admitted[1].fits /\ admitted[2].fits
    /\ charged = <<1, 1>>
    /\ calls = 0
    /\ total_api_cost = 199800
    /\ total_api_cost > api_usage_limit

\* C23: nothing guards create_version against an edit committed meanwhile:
\* the commit of the second of two edits stores its version whenever the
\* row it read still exists and the name is free, also when that row has
\* been superseded since it was read; so two edits that read the same
\* active version can both commit.
C23_ConcurrentEditsUnguarded ==
    [][CreateVersionCommitSecond =>
           LET self == wl_session2.self
               staged == create_version(wordlists, self,
                             wl_session2.new_csv_content,
                             wl_session2.description, next_wordlist_id)
           IN ((\E r \in wordlists : r.id = self.id)
                   /\ ~ UniqueViolation(staged))
                  => (/\ wl_last'.result = "version_created"
                      /\ wordlists' = staged)]_vars

\* C23: two rows made from the same row by two edits, with the same
\* version number and both active.
C23_Witness ==
    \E r1 \in wordlists, r2 \in wordlists :
        /\ r1.id # r2.id
        /\ r1.parent_wordlist_id # 0
        /\ r1.parent_wordlist_id = r2.parent_wordlist_id
        /\ RootOf(wordlists, r1) = RootOf(wordlists, r2)
        /\ r1.version = r2.version
        /\ r1.is_active /\ r2.is_active

\* C24: every stored job whose status is processing, completed or failed
\* has started_at set.
C24_StartedAtSet ==
    \A j \in 1..Len(jobs) :
        jobs[j].status \in {"processing", "completed", "failed"} =>
            jobs[j].started_at # 0

\* C25: a stored job whose status is not completed has cost zero, zero
\* input and output token counts and no corrected content.
C25_ResultsOnlyWhenCompleted ==
    \A j \in 1..Len(jobs) :
        jobs[j].status # "completed" =>
            /\ jobs[j].cost = 0
            /\ jobs[j].input_tokens = 0
            /\ jobs[j].output_tokens = 0
            /\ jobs[j].corrected_content = ""

\* C26: no stored job has status cancelled, whatever /process requests and
\* calls of mark_as_processing, mark_as_completed and mark_as_failed have
\* been made.
C26_NeverCancelled ==
    \A j \in 1..Len(jobs) : jobs[j].status # "cancelled"

\* C26: /process completed one job and failed the other, and both were
\* marked again afterwards, one as failed and one as processing.
C26_Witness ==
    /\ Len(jobs) = 2
    /\ charged = <<1, 0>>
    /\ calls = 2
    /\ jobs[1].status = "failed"
    /\ jobs[1].completed_at = 1
    /\ jobs[2].status = "processing"
    /\ jobs[2].started_at = 1
    /\ jobs[2].error_message # ""

\* C27: a job that /process has stored as processing is eventually
\* completed or failed, and correct_text is called for a job only in the
\* request that stored it, once: a handler starts a call only together
\* with storing a new job, and its job leaves processing only as that
\* handler finishes.
C27_ProcessingEnds ==
    /\ \A j \in 1..MaxJobs :
           (j <= Len(jobs) /\ jobs[j].status = "processing")
               ~> (j <= Len(jobs)
                       /\ jobs[j].status \in {"completed", "failed"})
    /\ [][\A w \in Workers :
              /\ (pc[w] # "calling" /\ pc'[w] = "calling") =>
                     /\ Len(jobs') = Len(jobs) + 1
                     /\ session'[w].job = Len(jobs')
              /\ (pc[w] # "idle" /\ pc'[w] = "idle") =>
                     jobs'[session[w].job].status \in {"completed", "failed"}
          ]_vars

\* C27: both jobs have left processing, one completed and one failed, and
\* no handler is running.
C27_Witness ==
    /\ Len(jobs) = 2
    /\ \A w \in Workers : pc[w] = "idle"
    /\ jobs[1].status = "completed"
    /\ jobs[2].status = "failed"
    /\ Len(admitted) = 2

\* C28: a restore request that names a version of another chain than the
\* one of the word-list it restores stores no new version.
C28_RestoreFromSameChain ==
    [][(wl_session.op = "restore_version" /\ CreateVersionCommit
            /\ ~ wl_session.same_chain) =>
           /\ wl_last'.result # "version_created"
           /\ wordlists' = wordlists]_vars

\* C29: the owner's spend is the sum of the costs of all the jobs that
\* /process has completed and charged, however the requests interleave: no
\* request's charge overwrites another's.
C29_NoChargeLost ==
    (\A j \in 1..Len(jobs) : charged[j] <= 1) =>
        total_api_cost = ChargedCost(Len(jobs))

\* what a row is apart from its name and description
Versioning(r) ==
    [id |-> r.id, user_id |-> r.user_id, csv_content |-> r.csv_content,
     version |-> r.version, parent_wordlist_id |-> r.parent_wordlist_id,
     is_active |-> r.is_active, usage_count |-> r.usage_count,
     last_used_at |-> r.last_used_at]

====
